---- MODULE Spec2Model ----
(***************************************************************************)
(* Model of convert_headers_to_extracted.py: the header-to-metadata        *)
(* converter.  Texts are TLA+ strings; the regular expressions and string  *)
(* methods of the script are modelled character by character.              *)
(***************************************************************************)
EXTENDS Integers, Sequences, FiniteSets, TLC

VARIABLES
    headers_dir,        \* the directory: file name -> the unit stored under it
    todo,               \* the part of sorted(os.listdir(...)) not yet visited
    pc,                 \* position of the batch
    filename,           \* the file name of the unit being processed
    content,            \* the unit text as read by process_header_file
    matches,            \* the method_matches not yet visited
    seen_methods,       \* process_header_file: seen_methods
    methods,            \* process_header_file: methods
    current_interface,  \* process_header_file: current_interface
    superclass,         \* process_header_file: superclass
    classes_data,       \* create_extracted_xml: classes_data
    document,           \* the objcClasses array written to the output
    line,               \* argument of the last parse_method_declaration call
    method_info,        \* its result: <<>> for None, <<record>> otherwise
    written             \* the documents written by the runs before this one

vars == <<headers_dir, todo, pc, filename, content, matches, seen_methods, methods,
          current_interface, superclass, classes_data, document, line,
          method_info, written>>

-----------------------------------------------------------------------------
(* Strings: the str methods and regex character classes the script uses.   *)

Char(s, i) == SubSeq(s, i, i)

CharsOf(s) == {Char(s, i) : i \in 1..Len(s)}

Lowercase == "abcdefghijklmnopqrstuvwxyz"

Uppercase == "ABCDEFGHIJKLMNOPQRSTUVWXYZ"

\* \w
WordChars == CharsOf(Lowercase) \cup CharsOf(Uppercase) \cup CharsOf("0123456789_")

\* \s
SpaceChars == {" ", "\n", "\t"}

\* [\w\s*<>{}\[\]] : the characters of a return type spelling
ReturnTypeChars == WordChars \cup SpaceChars \cup CharsOf("*<>{}[]")

\* least index in lo..hi whose character is in cls (member = TRUE) or is not
\* in cls (member = FALSE), 0 if there is none
RECURSIVE FirstChar(_, _, _, _, _)
FirstChar(s, cls, member, lo, hi) ==
    IF lo > hi THEN 0
    ELSE IF lo = hi THEN IF (Char(s, lo) \in cls) = member THEN lo ELSE 0
    ELSE LET mid  == (lo + hi) \div 2
             left == FirstChar(s, cls, member, lo, mid)
         IN  IF left # 0 THEN left ELSE FirstChar(s, cls, member, mid + 1, hi)

\* greatest index in lo..hi whose character is not in cls, 0 if there is none
RECURSIVE LastOutside(_, _, _, _)
LastOutside(s, cls, lo, hi) ==
    IF lo > hi THEN 0
    ELSE IF lo = hi THEN IF Char(s, lo) \notin cls THEN lo ELSE 0
    ELSE LET mid   == (lo + hi) \div 2
             right == LastOutside(s, cls, mid + 1, hi)
         IN  IF right # 0 THEN right ELSE LastOutside(s, cls, lo, mid)

\* first index >= i whose character is not in cls (a greedy cls* from i)
SpanEnd(s, cls, i) ==
    LET j == FirstChar(s, cls, FALSE, i, Len(s))
    IN  IF j # 0 THEN j ELSE IF i > Len(s) THEN i ELSE Len(s) + 1

\* last index <= i whose character is not in cls (0 if none)
SpanStart(s, cls, i) == LastOutside(s, cls, 1, i)

\* least index in lo..hi where sub occurs in s, 0 if none
RECURSIVE FindIn(_, _, _, _)
FindIn(s, sub, lo, hi) ==
    IF lo > hi THEN 0
    ELSE IF lo = hi
    THEN IF SubSeq(s, lo, lo + Len(sub) - 1) = sub THEN lo ELSE 0
    ELSE LET mid  == (lo + hi) \div 2
             left == FindIn(s, sub, lo, mid)
         IN  IF left # 0 THEN left ELSE FindIn(s, sub, mid + 1, hi)

\* str.find(sub, i): least index >= i where sub occurs, 0 if none
Find(s, sub, i) == FindIn(s, sub, i, Len(s) - Len(sub) + 1)

\* sub in s
Contains(s, sub) == Find(s, sub, 1) # 0

StartsWith(s, p) == Len(s) >= Len(p) /\ SubSeq(s, 1, Len(p)) = p

EndsWith(s, p) == Len(s) >= Len(p) /\ SubSeq(s, Len(s) - Len(p) + 1, Len(s)) = p

\* str.rstrip(chars)
RStrip(s, cls) == SubSeq(s, 1, SpanStart(s, cls, Len(s)))

\* str.lstrip(chars)
LStrip(s, cls) == SubSeq(s, SpanEnd(s, cls, 1), Len(s))

\* str.strip()
Strip(s) == LStrip(RStrip(s, SpaceChars), SpaceChars)

\* str.replace(old, new)
RECURSIVE Replace(_, _, _)
Replace(s, old, new) ==
    LET i == Find(s, old, 1)
    IN  IF i = 0 THEN s
        ELSE SubSeq(s, 1, i - 1) \o new
             \o Replace(SubSeq(s, i + Len(old), Len(s)), old, new)

\* str.count(c) for a single character
Count(s, c) == Cardinality({i \in 1..Len(s) : Char(s, i) = c})

\* str.split(sep) for a single character separator
RECURSIVE Split(_, _)
Split(s, sep) ==
    LET i == Find(s, sep, 1)
    IN  IF i = 0 THEN <<s>>
        ELSE <<SubSeq(s, 1, i - 1)>> \o Split(SubSeq(s, i + 1, Len(s)), sep)

\* sep.join(parts)
RECURSIVE Join(_, _)
Join(parts, sep) ==
    IF parts = <<>> THEN ""
    ELSE IF Len(parts) = 1 THEN parts[1]
    ELSE parts[1] \o sep \o Join(Tail(parts), sep)

LowerChar(c) ==
    LET i == Find(Uppercase, c, 1) IN IF i = 0 THEN c ELSE Char(Lowercase, i)

\* str.lower()
RECURSIVE Lower(_)
Lower(s) ==
    IF s = "" THEN "" ELSE LowerChar(Char(s, 1)) \o Lower(SubSeq(s, 2, Len(s)))

-----------------------------------------------------------------------------
(* calculate_type_encoding                                                 *)

special_method_encodings ==
    ("dealloc" :> "v16@0:8") @@ ("release" :> "v16@0:8") @@
    ("retain" :> "@16@0:8") @@ ("autorelease" :> "@16@0:8") @@
    ("init" :> "@16@0:8") @@ ("new" :> "@16@0:8") @@ ("alloc" :> "@16@0:8") @@
    ("isEqual:" :> "B24@0:8@16") @@ ("isLogFile:" :> "B24@0:8@16") @@
    ("isInSet:" :> "B24@0:8@16") @@ ("hash" :> "Q16@0:8") @@
    ("description" :> "@16@0:8") @@ ("debugDescription" :> "@16@0:8") @@
    ("class" :> "#16@0:8") @@ ("superclass" :> "#16@0:8") @@
    ("conformsToProtocol:" :> "B24@0:8^#16") @@
    ("isKindOfClass:" :> "B24@0:8#16") @@
    ("respondsToSelector:" :> "B24@0:8:16") @@
    ("copyWithZone:" :> "@24@0:8^{_NSZone=}16") @@
    ("mutableCopyWithZone:" :> "@24@0:8^{_NSZone=}16")

struct_types ==
    ("CGRect" :> "{CGRect={CGPoint=dd}{CGSize=dd}}") @@
    ("CGPoint" :> "{CGPoint=dd}") @@
    ("CGSize" :> "{CGSize=dd}") @@
    ("NSRange" :> "{_NSRange=QQ}") @@
    ("UIEdgeInsets" :> "{UIEdgeInsets=dddd}") @@
    ("CGAffineTransform" :> "{CGAffineTransform=dddddd}") @@
    ("IMAAdPlaybackInfo" :> "^{?=iiiiddddd{?=iiiiiiiiiiiiii}}") @@
    ("struct _NSZone *" :> "^{_NSZone=}") @@
    ("_NSZone *" :> "^{_NSZone=}") @@
    ("NSXMLParser *" :> "@") @@
    ("Protocol *" :> "^#") @@
    ("id<Protocol>" :> "@")

type_map ==
    ("void" :> "v") @@
    ("BOOL" :> "B") @@ ("bool" :> "B") @@ ("_Bool" :> "B") @@ ("Bool" :> "B") @@
    ("bool_" :> "B") @@
    ("instancetype" :> "@") @@
    ("double" :> "d") @@
    ("long long" :> "q") @@ ("long" :> "q") @@
    ("unsigned long long" :> "Q") @@
    ("unsigned int" :> "I") @@
    ("int" :> "i") @@
    ("float" :> "f") @@
    ("id" :> "@") @@
    ("NSString *" :> "@") @@ ("NSArray *" :> "@") @@ ("NSDictionary *" :> "@") @@
    ("NSObject *" :> "@") @@
    ("Class" :> "#") @@
    ("SEL" :> ":") @@
    ("char *" :> "*") @@
    ("const char *" :> "r*") @@
    ("void *" :> "^v") @@
    ("IMP" :> "^?") @@
    ("id *" :> "^@") @@
    ("NSError *" :> "@") @@
    ("NSError **" :> "^@") @@
    ("CDUnknownBlockType" :> "@?") @@
    ("dispatch_block_t" :> "@?") @@
    ("void(^)(void)" :> "@?")

base_size == 16

param_size == 8

\* the branch for completion handlers and block types (lines 67-84)
block_type_encoding(return_type) ==
    IF Contains(return_type, "(void (^)(_Bool))")
       \/ Contains(return_type, "(void (^)(BOOL))") THEN "v32@0:8@?16@24"
    ELSE IF Contains(return_type, "(void (^)(void))") THEN "v24@0:8@?16"
    ELSE IF Contains(return_type, "(void (^)(id))") THEN "v32@0:8@?16@24"
    ELSE IF Contains(return_type, "CDUnknownBlockType") THEN "v32@0:8@?16@24"
    ELSE IF StartsWith(return_type, "_Bool (^)")
            \/ StartsWith(return_type, "BOOL (^)") THEN "B32@0:8@?16@24"
    ELSE "@32@0:8@?16@24"

\* base_type.startswith('NS') or base_type.startswith('UI')
object_prefixed(base_type) ==
    StartsWith(base_type, "NS") \/ StartsWith(base_type, "UI")

\* the pointer rules and the basic type mapping (lines 136-168)
type_prefix(return_type) ==
    LET base_type == Strip(RStrip(return_type, {"*", " "}))
        bare      == Strip(Replace(base_type, "const", ""))
    IN  IF EndsWith(return_type, "**") THEN
            IF Contains(base_type, "const")
            THEN IF object_prefixed(bare) THEN "r^@" ELSE "r^^"
            ELSE IF object_prefixed(base_type) THEN "^@" ELSE "^^"
        ELSE IF EndsWith(return_type, "*") THEN
            IF Contains(base_type, "const")
            THEN IF object_prefixed(bare) THEN "r@"
                 ELSE IF bare = "char" THEN "r*"
                 ELSE "r^"
            ELSE IF object_prefixed(base_type) THEN "@" ELSE "^"
        ELSE IF return_type \in DOMAIN type_map THEN type_map[return_type]
        ELSE "@"

\* lines 50-170: the encoding computed when the table has no entry
computed_type_encoding(rt1, selector) ==
    IF /\ Strip(rt1) \in {"BOOL", "_Bool"}
       /\ Contains(selector, ":")
       /\ Strip(Split(selector, ":")[2]) = "(id)"
    THEN "B24@0:8@16"
    ELSE
        LET rt2          == IF Strip(rt1) = "instancetype" THEN "id" ELSE rt1
            params_count == Count(selector, ":")
            total_size   == base_size + (param_size * params_count)
            return_type  == Strip(rt2)
        IN  IF Contains(return_type, "^")
               \/ Contains(return_type, "CDUnknownBlockType")
            THEN block_type_encoding(return_type)
            ELSE IF return_type \in DOMAIN struct_types
            THEN struct_types[return_type] \o ToString(total_size) \o "@0:8"
            ELSE type_prefix(return_type) \o ToString(total_size) \o "@0:8"

calculate_type_encoding_skips_table(return_type_arg, selector) ==
    computed_type_encoding(
        IF return_type_arg = "_Bool" THEN "bool" ELSE return_type_arg, selector)

calculate_type_encoding(return_type_arg, selector) ==
    IF selector \in DOMAIN special_method_encodings
    THEN special_method_encodings[selector]
    ELSE computed_type_encoding(
             IF return_type_arg = "_Bool" THEN "bool" ELSE return_type_arg,
             selector)

-----------------------------------------------------------------------------
(* Regular expressions.  A pattern is a sequence of steps; every pattern   *)
(* of the script is matched greedily, left to right, and none of them      *)
(* needs a quantifier to give characters back, except \s*([^;]+), which    *)
(* selector_group accounts for.                                            *)

\* a literal text
Lit(text) ==
    [kind |-> "lit", text |-> text, chars |-> {}, inside |-> TRUE,
     least |-> 0, group |-> FALSE]

\* .*? followed by a literal text
Until(text) ==
    [kind |-> "until", text |-> text, chars |-> {}, inside |-> TRUE,
     least |-> 0, group |-> FALSE]

\* one character of a class, [chars] or [^chars]
One(chars, inside, group) ==
    [kind |-> "one", text |-> "", chars |-> chars, inside |-> inside,
     least |-> 1, group |-> group]

\* a class repeated at least `least` times: [chars]* or [chars]+
Run(chars, inside, least, group) ==
    [kind |-> "run", text |-> "", chars |-> chars, inside |-> inside,
     least |-> least, group |-> group]

\* the index after the text a step matches at pos, 0 when it does not match
step_end(s, step, pos) ==
    IF step.kind = "lit" THEN
        IF pos + Len(step.text) - 1 <= Len(s)
           /\ SubSeq(s, pos, pos + Len(step.text) - 1) = step.text
        THEN pos + Len(step.text) ELSE 0
    ELSE IF step.kind = "until" THEN
        IF Find(s, step.text, pos) = 0 THEN 0
        ELSE Find(s, step.text, pos) + Len(step.text)
    ELSE IF step.kind = "one" THEN
        IF pos <= Len(s) /\ (Char(s, pos) \in step.chars) = step.inside
        THEN pos + 1 ELSE 0
    ELSE
        LET stop == FirstChar(s, step.chars, ~step.inside, pos, Len(s))
            end  == IF stop = 0 THEN Len(s) + 1 ELSE stop
        IN  IF end - pos >= step.least THEN end ELSE 0

\* re.match of the steps at pos: <<>> or <<groups, index after the match>>
RECURSIVE match_steps(_, _, _, _)
after_step(s, pos, steps, groups, end) ==
    IF end = 0 THEN <<>>
    ELSE match_steps(s, end, Tail(steps),
             IF Head(steps).group THEN Append(groups, SubSeq(s, pos, end - 1))
             ELSE groups)

match_steps(s, pos, steps, groups) ==
    IF steps = <<>> THEN <<groups, pos>>
    ELSE after_step(s, pos, steps, groups, step_end(s, Head(steps), pos))

\* the alternatives a|b|... tried in order at pos:
\* <<>> or <<pos, groups, index after the match>>
RECURSIVE match_at(_, _, _)
first_or_next(s, pos, patterns, m) ==
    IF m # <<>> THEN <<pos, m[1], m[2]>> ELSE match_at(s, pos, Tail(patterns))

match_at(s, pos, patterns) ==
    IF patterns = <<>> THEN <<>>
    ELSE first_or_next(s, pos, patterns, match_steps(s, pos, Head(patterns), <<>>))

\* the leftmost match that starts in lo..hi
RECURSIVE first_match(_, _, _, _)
first_match(s, patterns, lo, hi) ==
    IF lo > hi THEN <<>>
    ELSE IF lo = hi THEN match_at(s, lo, patterns)
    ELSE LET mid  == (lo + hi) \div 2
             left == first_match(s, patterns, lo, mid)
         IN  IF left # <<>> THEN left
             ELSE first_match(s, patterns, mid + 1, hi)

\* re.search from index i
re_search(s, patterns, i) == first_match(s, patterns, i, Len(s))

\* re.finditer / re.findall from index i: the groups of every match
RECURSIVE re_findall(_, _, _)
found_more(s, patterns, m) ==
    IF m = <<>> THEN <<>> ELSE <<m[2]>> \o re_findall(s, patterns, m[3])

re_findall(s, patterns, i) == found_more(s, patterns, re_search(s, patterns, i))

\* re.split from index i
RECURSIVE re_split(_, _, _)
split_more(s, patterns, i, m) ==
    IF m = <<>> THEN <<SubSeq(s, i, Len(s))>>
    ELSE <<SubSeq(s, i, m[1] - 1)>> \o re_split(s, patterns, m[3])

re_split(s, patterns, i) == split_more(s, patterns, i, re_search(s, patterns, i))

\* re.sub from index i; the replacement is the text before followed by the
\* group numbered group_no (0 for none)
RECURSIVE re_sub(_, _, _, _, _)
sub_more(s, patterns, before, group_no, i, m) ==
    IF m = <<>> THEN SubSeq(s, i, Len(s))
    ELSE SubSeq(s, i, m[1] - 1) \o before
         \o (IF group_no = 0 THEN "" ELSE m[2][group_no])
         \o re_sub(s, patterns, before, group_no, m[3])

re_sub(s, patterns, before, group_no, i) ==
    sub_more(s, patterns, before, group_no, i, re_search(s, patterns, i))

-----------------------------------------------------------------------------
(* parse_method_declaration                                                *)

\* ([+-])\s*\(([\w\s*<>{}\[\]]+(?:\s*\*)?)\)\s*([^;]+) ; the optional
\* (?:\s*\*)? adds nothing, its characters being in the class before it, and
\* the third group is taken with its leading spaces (see selector_group)
declaration_pattern ==
    <<One({"+", "-"}, TRUE, TRUE), Run(SpaceChars, TRUE, 0, FALSE), Lit("("),
      Run(ReturnTypeChars, TRUE, 1, TRUE), Lit(")"), Run({";"}, FALSE, 1, TRUE)>>

\* the group ([^;]+) that follows \s* : \s* takes the leading spaces, and
\* gives the last one back when nothing else is left
selector_group(run) ==
    IF LStrip(run, SpaceChars) # "" THEN LStrip(run, SpaceChars)
    ELSE Char(run, Len(run))

\* the groups (prefix, return_type, selector) of a match of the pattern
declaration_groups(groups) == <<groups[1], groups[2], selector_group(groups[3])>>

\* \([^)]+\)\s*\w+
parameter_pattern ==
    <<Lit("("), Run({")"}, FALSE, 1, FALSE), Lit(")"),
      Run(SpaceChars, TRUE, 0, FALSE), Run(WordChars, TRUE, 1, FALSE)>>

\* \(([^)]+)\)
type_pattern == <<Lit("("), Run({")"}, FALSE, 1, TRUE), Lit(")")>>

bool_spellings == {"_bool", "bool", "bool_"}

\* the type code of one parameter (lines 284-296)
param_code(param_type) ==
    IF Lower(param_type) \in bool_spellings THEN "B"
    ELSE IF Lower(param_type) \in {"int", "nsinteger"} THEN "i"
    ELSE IF Lower(param_type) \in {"long", "long long", "nsuinteger"} THEN "q"
    ELSE IF Lower(param_type) \in {"float", "cgfloat"} THEN "f"
    ELSE IF Lower(param_type) = "double" THEN "d"
    ELSE "@"

return_code_bool_as_id(return_type, display_type) ==
    IF return_type = "void" THEN "v"
    ELSE IF return_type = "int" THEN "i"
    ELSE IF return_type = "long" THEN "q"
    ELSE IF return_type = "float" THEN "f"
    ELSE IF return_type = "double" THEN "d"
    ELSE "@"

\* the return code of a method with parameters (lines 303-308)
return_code(return_type, display_type) ==
    IF return_type = "void" THEN "v"
    ELSE IF display_type = "bool" THEN "B"
    ELSE IF return_type = "int" THEN "i"
    ELSE IF return_type = "long" THEN "q"
    ELSE IF return_type = "float" THEN "f"
    ELSE IF return_type = "double" THEN "d"
    ELSE "@"

\* the (code, offset) pair of parameter i, i counted from 0 as in the source
param_token(param_type, i) ==
    <<param_code(param_type), base_size + (i * param_size)>>

\* ''.join(f"{code}{offset}" for code, offset in param_types)
RECURSIVE join_param_tokens(_)
join_param_tokens(param_types) ==
    IF param_types = <<>> THEN ""
    ELSE param_types[1][1] \o ToString(param_types[1][2])
         \o join_param_tokens(Tail(param_types))

method_record(prefix, selector, type_encoding, display_name, class_name) ==
    [prefix |-> prefix, selector |-> selector, typeEncoding |-> type_encoding,
     displayName |-> display_name, className |-> class_name]

\* line 273: [p.strip().rstrip(':') for p in parts if p.strip()]
method_parts_of(parts) ==
    LET kept == SelectSeq(parts, LAMBDA p : Strip(p) # "")
    IN  [i \in 1..Len(kept) |-> RStrip(Strip(kept[i]), {":"})]

\* lines 280-281: the type of parameter i, i counted from 1
param_type_at(types, i) == Strip(IF i <= Len(types) THEN types[i] ELSE "id")

\* lines 284-285 and 298: the type as the display name shows it
shown_type(param_type) ==
    IF Lower(param_type) \in bool_spellings THEN "bool" ELSE param_type

\* lines 274-319: the record of a method with parameters
method_with_parameters(prefix, return_type, display_type, method_parts, types, class_name) ==
    method_record(
        prefix,
        Join(method_parts, ":") \o ":",
        return_code(return_type, display_type)
            \o ToString(base_size + (Len(method_parts) * param_size)) \o "@0:8"
            \o join_param_tokens([i \in 1..Len(method_parts) |->
                                     param_token(param_type_at(types, i), i - 1)]),
        prefix \o "(" \o display_type \o ") "
            \o Join([i \in 1..Len(method_parts) |->
                        method_parts[i] \o ":("
                        \o shown_type(param_type_at(types, i)) \o ")"], " "),
        class_name)

\* line 271: what re.findall returns for a pattern with one group
first_groups(found) == [i \in 1..Len(found) |-> found[i][1]]

\* lines 257-261
display_type_of(return_type) ==
    IF Lower(return_type) \in bool_spellings THEN "bool"
    ELSE IF Contains(return_type, "Protocol") THEN "Protocol *"
    ELSE return_type

parse_matched_without_destruct(prefix, return_type, raw_selector, selector, class_name) ==
    IF ~Contains(selector, ":")
    THEN method_record(prefix, selector,
                       calculate_type_encoding(return_type, selector),
                       prefix \o "(" \o display_type_of(return_type) \o ") "
                       \o selector,
                       class_name)
    ELSE method_with_parameters(prefix, return_type,
             display_type_of(return_type),
             method_parts_of(re_split(selector, <<parameter_pattern>>, 1)),
             first_groups(re_findall(selector, <<type_pattern>>, 1)),
             class_name)

\* lines 246-329: the record built from the groups of the match; selector is
\* the third group stripped
parse_matched(prefix, return_type, raw_selector, selector, class_name) ==
    IF Contains(raw_selector, ".cxx_destruct")
    THEN method_record(prefix, ".cxx_destruct", "v16@0:8",
                       prefix \o "(void) .cxx_destruct", class_name)
    ELSE IF ~Contains(selector, ":")
    THEN method_record(prefix, selector,
                       calculate_type_encoding(return_type, selector),
                       prefix \o "(" \o display_type_of(return_type) \o ") "
                       \o selector,
                       class_name)
    ELSE method_with_parameters(prefix, return_type,
             display_type_of(return_type),
             method_parts_of(re_split(selector, <<parameter_pattern>>, 1)),
             first_groups(re_findall(selector, <<type_pattern>>, 1)),
             class_name)

\* lines 239-244: <<>> is None
parse_match(m, class_name) ==
    IF m = <<>> THEN <<>>
    ELSE <<parse_matched(declaration_groups(m[2])[1],
                         Strip(declaration_groups(m[2])[2]),
                         declaration_groups(m[2])[3],
                         Strip(declaration_groups(m[2])[3]), class_name)>>

\* parse_method_declaration(line, class_name): <<>> is None
parse_method_declaration(line_arg, class_name) ==
    parse_match(match_at(Strip(line_arg), 1, <<declaration_pattern>>), class_name)

-----------------------------------------------------------------------------
(* parse_method_declaration of the second script, "convert_headers_to_     *)
(* extracted 2.py".  Its calculate_type_encoding and process_header_file   *)
(* are those of the first script, line for line.                           *)

\* [\w\s*<>] : the characters of a return type spelling in the second script
second_return_type_chars == WordChars \cup SpaceChars \cup CharsOf("*<>")

\* ^([+-])\s*\(([\w\s*<>]+)\)\s* : the pattern up to its third group
second_declaration_pattern ==
    <<One({"+", "-"}, TRUE, TRUE), Run(SpaceChars, TRUE, 0, FALSE), Lit("("),
      Run(second_return_type_chars, TRUE, 1, TRUE), Lit(")"),
      Run(SpaceChars, TRUE, 0, FALSE)>>

\* \s* , (?:\([^)]+\))? , \s* , :? , \s* , (?:\([^)]+\))? , \s* : what follows
\* [^\s:]+ in one repetition of the third group, each part matched if it can
selector_item_options ==
    <<<<Run(SpaceChars, TRUE, 0, FALSE)>>,
      <<Lit("("), Run({")"}, FALSE, 1, FALSE), Lit(")")>>,
      <<Run(SpaceChars, TRUE, 0, FALSE)>>,
      <<Lit(":")>>,
      <<Run(SpaceChars, TRUE, 0, FALSE)>>,
      <<Lit("("), Run({")"}, FALSE, 1, FALSE), Lit(")")>>,
      <<Run(SpaceChars, TRUE, 0, FALSE)>>>>

\* the index after an optional part: pos when it does not match
end_or_stay(m, pos) == IF m = <<>> THEN pos ELSE m[2]

\* the index after the optional parts, matched one after the other from pos
RECURSIVE through_options(_, _, _)
through_options(s, pos, options) ==
    IF options = <<>> THEN pos
    ELSE through_options(s,
             end_or_stay(match_steps(s, pos, Head(options), <<>>), pos),
             Tail(options))

\* the index after one repetition [^\s:]+ ... of the third group at pos, 0
\* when there is none
selector_item_end(s, pos) ==
    IF step_end(s, Run(SpaceChars \cup {":"}, FALSE, 1, FALSE), pos) = 0 THEN 0
    ELSE through_options(s,
             step_end(s, Run(SpaceChars \cup {":"}, FALSE, 1, FALSE), pos),
             selector_item_options)

\* the index after the third group ((?: ... )*) matched from pos: the
\* repetitions are taken as long as one matches
RECURSIVE selector_with_types_end(_, _)
selector_with_types_end(s, pos) ==
    IF selector_item_end(s, pos) = 0 THEN pos
    ELSE selector_with_types_end(s, selector_item_end(s, pos))

\* (\w+)?\s*:\s*\(([^)]+)\) : with the optional name, and without it
param_section_patterns ==
    <<<<Run(WordChars, TRUE, 1, TRUE), Run(SpaceChars, TRUE, 0, FALSE), Lit(":"),
        Run(SpaceChars, TRUE, 0, FALSE), Lit("("), Run({")"}, FALSE, 1, TRUE),
        Lit(")")>>,
      <<Run(SpaceChars, TRUE, 0, FALSE), Lit(":"),
        Run(SpaceChars, TRUE, 0, FALSE), Lit("("), Run({")"}, FALSE, 1, TRUE),
        Lit(")")>>>>

\* second script, line 268: match.group(1) or ''
section_name(groups) == IF Len(groups) = 2 THEN groups[1] ELSE ""

\* second script, lines 269-275: the parameter type, cleaned
section_type(groups) ==
    IF Strip(groups[Len(groups)]) = "_Bool" THEN "bool"
    ELSE IF Lower(Strip(groups[Len(groups)])) \in {"id", "id)", "instancetype"}
    THEN "id"
    ELSE Strip(groups[Len(groups)])

\* second script, lines 277-282: selector_parts and display_parts
selector_parts_of(sections) ==
    [i \in 1..Len(sections) |-> section_name(sections[i]) \o ":"]

display_parts_of(sections) ==
    [i \in 1..Len(sections) |->
        section_name(sections[i]) \o ":(" \o section_type(sections[i]) \o ")"]

\* second script, lines 246-248
second_return_type(return_type) ==
    IF Strip(return_type) = "_Bool" THEN "bool" ELSE Strip(return_type)

\* second script, lines 286-291: the selector of a method with parameters
second_selector(method_name, sections) ==
    IF method_name # ""
    THEN method_name \o ":" \o Join(selector_parts_of(sections), "")
    ELSE Join(selector_parts_of(sections), "")

\* second script, lines 288 and 291
second_display_name(prefix, return_type, method_name, sections) ==
    IF method_name # ""
    THEN prefix \o "(" \o return_type \o ") " \o method_name \o ":"
         \o Join(display_parts_of(sections), " ")
    ELSE prefix \o "(" \o return_type \o ") "
         \o Join(display_parts_of(sections), " ")

\* second script, lines 255-300 for a selector_with_types that has a colon
second_with_parameters(prefix, return_type, method_name, sections, class_name) ==
    method_record(prefix,
                  second_selector(method_name, sections),
                  calculate_type_encoding(return_type,
                      second_selector(method_name, sections)),
                  second_display_name(prefix, return_type, method_name, sections),
                  class_name)

\* second script, lines 244-300: the record built from the groups of the match
second_parse_matched(prefix, return_type, selector_with_types, class_name) ==
    IF ~Contains(selector_with_types, ":")
    THEN method_record(prefix, Strip(selector_with_types),
                       calculate_type_encoding(return_type,
                                               Strip(selector_with_types)),
                       prefix \o "(" \o return_type \o ") "
                       \o Strip(selector_with_types),
                       class_name)
    ELSE second_with_parameters(prefix, return_type,
             Strip(Split(selector_with_types, ":")[1]),
             re_findall(selector_with_types, param_section_patterns, 1),
             class_name)

\* second script, lines 239-243: <<>> is None; m is the match of the pattern
\* up to its third group
second_parse_match(line_arg, m, class_name) ==
    IF m = <<>> THEN <<>>
    ELSE <<second_parse_matched(m[1][1], second_return_type(m[1][2]),
               SubSeq(line_arg, m[2], selector_with_types_end(line_arg, m[2]) - 1),
               class_name)>>

\* parse_method_declaration(line, class_name) of the second script
second_parse_method_declaration(line_arg, class_name) ==
    second_parse_match(line_arg,
        match_steps(line_arg, 1, second_declaration_pattern, <<>>), class_name)

-----------------------------------------------------------------------------
(* process_header_file                                                     *)

\* //.*?\n|/\*.*?\*/
comment_patterns == <<<<Lit("//"), Until("\n")>>, <<Lit("/*"), Until("*/")>>>>

\* #.*?\n
directive_pattern == <<Lit("#"), Until("\n")>>

\* (\n\s*)([+-]) ; only the sign is a group here, it is \2 of the source
method_line_pattern ==
    <<Lit("\n"), Run(SpaceChars, TRUE, 0, FALSE), One({"+", "-"}, TRUE, TRUE)>>

\* lines 183-187: the text the declarations are searched in
clean_content(text) ==
    re_sub(re_sub(re_sub(text, comment_patterns, "", 0, 1),
                  <<directive_pattern>>, "", 0, 1),
           <<method_line_pattern>>, " ", 1, 1)

\* @interface\s+(\w+)\s*:\s*(\w+)
interface_pattern ==
    <<Lit("@interface"), Run(SpaceChars, TRUE, 1, FALSE),
      Run(WordChars, TRUE, 1, TRUE), Run(SpaceChars, TRUE, 0, FALSE), Lit(":"),
      Run(SpaceChars, TRUE, 0, FALSE), Run(WordChars, TRUE, 1, TRUE)>>

\* @protocol\s+(\w+)
protocol_pattern ==
    <<Lit("@protocol"), Run(SpaceChars, TRUE, 1, FALSE),
      Run(WordChars, TRUE, 1, TRUE)>>

\* @interface\s+(\w+)\s*\((\w*)\)
category_pattern ==
    <<Lit("@interface"), Run(SpaceChars, TRUE, 1, FALSE),
      Run(WordChars, TRUE, 1, TRUE), Run(SpaceChars, TRUE, 0, FALSE), Lit("("),
      Run(WordChars, TRUE, 0, TRUE), Lit(")")>>

None == "<None>"

owner_of_protocol_first(interface_match, protocol_match, category_match) ==
    IF protocol_match # <<>> THEN <<protocol_match[2][1], "NSObject">>
    ELSE IF interface_match # <<>>
    THEN <<interface_match[2][1], interface_match[2][2]>>
    ELSE IF category_match # <<>> THEN <<category_match[2][1], None>>
    ELSE <<"NSObject", None>>

\* lines 194-206: <<current_interface, superclass>>
owner_of(interface_match, protocol_match, category_match) ==
    IF interface_match # <<>>
    THEN <<interface_match[2][1], interface_match[2][2]>>
    ELSE IF protocol_match # <<>> THEN <<protocol_match[2][1], "NSObject">>
    ELSE IF category_match # <<>> THEN <<category_match[2][1], None>>
    ELSE <<"NSObject", None>>

\* lines 190-206
find_owner(s) ==
    owner_of(re_search(s, <<interface_pattern>>, 1),
             re_search(s, <<protocol_pattern>>, 1),
             re_search(s, <<category_pattern>>, 1))

\* lines 209-210: the groups of every match of method_pattern, which is the
\* declaration pattern followed by ;
method_matches(s) ==
    LET found == re_findall(s, <<declaration_pattern \o <<Lit(";")>>>>, 1)
    IN  [i \in 1..Len(found) |-> declaration_groups(found[i])]

\* line 218: the selector of a match, cleaned up
clean_selector_text(selector) ==
    re_sub(Strip(selector), <<<<Run(SpaceChars, TRUE, 1, FALSE)>>>>, " ", 0, 1)

\* line 221: the key a method is remembered by
method_key(prefix, selector) == prefix \o Strip(selector)

\* line 226: the line handed to parse_method_declaration
declaration_line(prefix, return_type, selector) ==
    prefix \o "(" \o return_type \o ") " \o selector

-----------------------------------------------------------------------------
(* The units of a directory.  A unit is [readable, blocks]; a block is a    *)
(* declaration line (or none) followed by prototypes; a prototype is       *)
(* [prefix, ret, bare, params, sep] with params a sequence of              *)
(* [label, type, name] and sep the text between two parameters.            *)

param_text(q) == q.label \o ":(" \o q.type \o ")" \o q.name

selector_text(p) ==
    IF p.params = <<>> THEN p.bare
    ELSE Join([i \in 1..Len(p.params) |-> param_text(p.params[i])], p.sep)

proto_text(p) == p.prefix \o " (" \o p.ret \o ")" \o selector_text(p) \o ";"

block_text(b) ==
    (IF b.decl = "" THEN "" ELSE b.decl \o "\n")
    \o Join([i \in 1..Len(b.protos) |-> proto_text(b.protos[i]) \o "\n"], "")
    \o (IF b.decl = "" THEN "" ELSE "@end\n")

\* f.read(): the text of a unit
unit_text(u) == Join([i \in 1..Len(u.blocks) |-> block_text(u.blocks[i])], "\n")

-----------------------------------------------------------------------------
(* create_extracted_xml                                                    *)

\* the code point order of the characters of a file name
CharOrder == ".0123456789" \o Uppercase \o "_" \o Lowercase

\* a < b for str
RECURSIVE str_less(_, _)
str_less(a, b) ==
    IF a = "" THEN b # ""
    ELSE IF b = "" THEN FALSE
    ELSE IF Char(a, 1) = Char(b, 1)
    THEN str_less(SubSeq(a, 2, Len(a)), SubSeq(b, 2, Len(b)))
    ELSE Find(CharOrder, Char(a, 1), 1) < Find(CharOrder, Char(b, 1), 1)

RECURSIVE sorted_greatest_first(_)
sorted_greatest_first(names) ==
    IF names = {} THEN <<>>
    ELSE LET greatest == CHOOSE x \in names :
                             \A y \in names \ {x} : str_less(y, x)
         IN  <<greatest>> \o sorted_greatest_first(names \ {greatest})

\* sorted(names)
RECURSIVE sorted(_)
sorted(names) ==
    IF names = {} THEN <<>>
    ELSE LET least == CHOOSE x \in names :
                          \A y \in names \ {x} : str_less(x, y)
         IN  <<least>> \o sorted(names \ {least})

\* lines 485 and 487: .replace('arg1', '')...replace('arg4', '')
strip_args(s) ==
    Replace(Replace(Replace(Replace(s, "arg1", ""), "arg2", ""), "arg3", ""),
            "arg4", "")

\* lines 483-489
clean_method(method) ==
    [className    |-> method.className,
     displayName  |-> strip_args(method.displayName),
     prefix       |-> method.prefix,
     selector     |-> strip_args(method.selector),
     typeEncoding |-> method.typeEncoding]

\* lines 471-505: one dict of the objcClasses array; superClassName None
\* stands for a dict without that key
class_dict(class_info) ==
    [methods |-> [j \in 1..Len(class_info.methods) |->
                     clean_method(class_info.methods[j])],
     name |-> class_info.name,
     superClassName |-> IF class_info.superClassName \in {None, ""}
                        THEN None ELSE class_info.superClassName]

kept_classes_always(classes, unit_methods, class_name, super_class) ==
    Append(classes, [name |-> class_name, superClassName |-> super_class,
                     methods |-> unit_methods])

\* lines 462-468: classes_data after a unit has been processed
kept_classes(classes, unit_methods, class_name, super_class) ==
    IF unit_methods # <<>>
    THEN Append(classes, [name |-> class_name, superClassName |-> super_class,
                          methods |-> unit_methods])
    ELSE classes

remember_nothing(seen, key) == seen

\* line 224: seen_methods.add(method_key)
remember(seen, key) == seen \cup {key}

InitWith(directories) ==
    /\ headers_dir \in directories
    /\ todo = sorted(DOMAIN headers_dir)
    /\ pc = "files"
    /\ filename = None
    /\ content = None
    /\ matches = <<>>
    /\ seen_methods = {}
    /\ methods = <<>>
    /\ current_interface = None
    /\ superclass = None
    /\ classes_data = <<>>
    /\ document = <<>>
    /\ line = None
    /\ method_info = <<>>
    /\ written = <<>>

\* line 456: a name that does not end in .h is passed over
SkipFile ==
    /\ pc = "files" /\ todo # <<>>
    /\ ~EndsWith(Head(todo), ".h")
    /\ filename' = Head(todo)
    /\ todo' = Tail(todo)
    /\ UNCHANGED <<headers_dir, written, pc, content, matches, seen_methods, methods,
                   current_interface, superclass, classes_data, document, line,
                   method_info>>

\* process_header_file, lines 173-212: read the unit, find the owner and the
\* method declarations
OpenUnit ==
    /\ pc = "files" /\ todo # <<>>
    /\ EndsWith(Head(todo), ".h")
    /\ headers_dir[Head(todo)].readable
    /\ content' = clean_content(unit_text(headers_dir[Head(todo)]))
    /\ current_interface' = find_owner(content')[1]
    /\ superclass' = find_owner(content')[2]
    /\ matches' = method_matches(content')
    /\ filename' = Head(todo)
    /\ todo' = Tail(todo)
    /\ seen_methods' = {}
    /\ methods' = <<>>
    /\ pc' = "unit"
    /\ UNCHANGED <<headers_dir, written, classes_data, document, line, method_info>>

ReadFailureEndsBatch ==
    /\ pc = "files" /\ todo # <<>>
    /\ EndsWith(Head(todo), ".h")
    /\ ~headers_dir[Head(todo)].readable
    /\ filename' = Head(todo)
    /\ todo' = <<>>
    /\ content' = None
    /\ matches' = <<>>
    /\ seen_methods' = {}
    /\ methods' = <<>>
    /\ current_interface' = None
    /\ superclass' = None
    /\ UNCHANGED <<headers_dir, written, pc, classes_data, document, line, method_info>>

\* process_header_file, lines 178-180 and 232-234, then lines 460-462: open
\* raises, the unit gives [], None, None and no class_info
ReadFailure ==
    /\ pc = "files" /\ todo # <<>>
    /\ EndsWith(Head(todo), ".h")
    /\ ~headers_dir[Head(todo)].readable
    /\ filename' = Head(todo)
    /\ todo' = Tail(todo)
    /\ content' = None
    /\ matches' = <<>>
    /\ seen_methods' = {}
    /\ methods' = <<>>
    /\ current_interface' = None
    /\ superclass' = None
    /\ UNCHANGED <<headers_dir, written, pc, classes_data, document, line, method_info>>

\* process_header_file, lines 214-229: one turn of the loop over the matches
NextMethod ==
    /\ pc = "unit" /\ matches # <<>>
    /\ LET prefix      == Head(matches)[1]
           return_type == Head(matches)[2]
           selector    == clean_selector_text(Head(matches)[3])
       IN  IF method_key(prefix, selector) \in seen_methods
           THEN UNCHANGED <<seen_methods, methods, line, method_info>>
           ELSE /\ seen_methods' =
                       remember(seen_methods, method_key(prefix, selector))
                /\ line' = declaration_line(prefix, return_type, selector)
                /\ method_info' =
                       parse_method_declaration(line', current_interface)
                /\ methods' =
                       IF method_info' = <<>> THEN methods
                       ELSE Append(methods,
                                [method_info'[1] EXCEPT
                                     !.className = current_interface])
    /\ matches' = Tail(matches)
    /\ UNCHANGED <<headers_dir, written, todo, pc, filename, content, current_interface,
                   superclass, classes_data, document>>

\* line 231, then lines 460-468: the unit is returned and kept if it has
\* methods
ReturnUnit ==
    /\ pc = "unit" /\ matches = <<>>
    /\ classes_data' =
           kept_classes(classes_data, methods, current_interface, superclass)
    /\ pc' = "files"
    /\ UNCHANGED <<headers_dir, written, todo, filename, content, matches, seen_methods,
                   methods, current_interface, superclass, document, line,
                   method_info>>

\* lines 470-518: the document is built from classes_data and written
WriteDocument ==
    /\ pc = "files" /\ todo = <<>>
    /\ document' = [i \in 1..Len(classes_data) |-> class_dict(classes_data[i])]
    /\ pc' = "done"
    /\ UNCHANGED <<headers_dir, written, todo, filename, content, matches, seen_methods,
                   methods, current_interface, superclass, classes_data, line,
                   method_info>>

MaxRuns == 2

RunAgainKeepsClasses ==
    /\ pc = "done" /\ Len(written) + 1 < MaxRuns
    /\ written' = Append(written, document)
    /\ todo' = sorted(DOMAIN headers_dir)
    /\ pc' = "files"
    /\ filename' = None
    /\ content' = None
    /\ matches' = <<>>
    /\ seen_methods' = {}
    /\ methods' = <<>>
    /\ current_interface' = None
    /\ superclass' = None
    /\ document' = <<>>
    /\ line' = None
    /\ method_info' = <<>>
    /\ UNCHANGED <<headers_dir, classes_data>>

\* lines 444-455: create_extracted_xml is called again on the same directory;
\* root, classes_data and the listing are made anew, the names come in the
\* order sorted gives them whatever order os.listdir lists them in
RunAgain ==
    /\ pc = "done" /\ Len(written) + 1 < MaxRuns
    /\ written' = Append(written, document)
    /\ todo' = sorted(DOMAIN headers_dir)
    /\ pc' = "files"
    /\ filename' = None
    /\ content' = None
    /\ matches' = <<>>
    /\ seen_methods' = {}
    /\ methods' = <<>>
    /\ current_interface' = None
    /\ superclass' = None
    /\ classes_data' = <<>>
    /\ document' = <<>>
    /\ line' = None
    /\ method_info' = <<>>
    /\ UNCHANGED headers_dir

-----------------------------------------------------------------------------
(* The directories the batch is run on.                                    *)

MaxParams == 2

MaxProtos == 2

MaxBatchProtos == 1

\* all sequences over S of length at most n
SeqsUpTo(S, n) == UNION {[1..k -> S] : k \in 0..n}

Prefixes == {"-", "+"}

ReturnSpellings ==
    {"void", "BOOL", "_Bool", "int", "NSInteger", "long", "float", "double",
     "id", "NSString *", "CDUnknownBlockType",
     "CGRect", "CGPoint", "CGSize", "NSRange", "UIEdgeInsets",
     "CGAffineTransform"}

ParamSpellings ==
    {"id", "int", "BOOL", "double", "NSString *", "Protocol *", "void (^)(BOOL)"}

BareSelectors ==
    {sel \in DOMAIN special_method_encodings : ~Contains(sel, ":")}
    \cup {"doSomething", "frame"}

FirstLabels ==
    {RStrip(sel, {":"}) : sel \in {k \in DOMAIN special_method_encodings :
                                      Contains(k, ":")}}
    \cup {"sum", "run"}

Labels == <<"sum", "with", "and", "then">>

Names == <<"a", "b", "c", "d">>

ManyParamReturns == {"void", "NSInteger", "CGRect"}

Prototype(prefix, ret, bare, params, sep) ==
    [prefix |-> prefix, ret |-> ret, bare |-> bare, params |-> params,
     sep |-> sep]

Parameter(label, type, name) == [label |-> label, type |-> type, name |-> name]

\* type spellings met in return position and in parameter position
TypeSpellings ==
    {"BOOL", "int", "NSInteger", "long long", "unsigned int", "float",
     "CGFloat", "double", "id", "Class", "SEL", "NSString *", "char *",
     "const char *",
     "CGRect", "CGPoint", "CGSize", "NSRange", "UIEdgeInsets",
     "CGAffineTransform"}

\* pointers that are neither character pointers nor in TypeSpellings
PointerSpellings == {"int *", "void *", "const int *", "UIView *"}

\* prototypes written out in full
ScenarioPrototypes ==
    {Prototype("-", "void", "",
         <<Parameter("run", "void (^)(BOOL)", "handler"),
           Parameter("with", "int", "x")>>, " "),
     Prototype("-", "void", "", <<Parameter("foo", "int", "a")>>, " "),
     Prototype("-", "void", "",
         <<Parameter("foo", "int", "a"), Parameter("bar", "id", "b")>>, " ")}
    \cup
    {Prototype(p, r, ".cxx_destruct", <<>>, " ") :
        p \in Prefixes, r \in ReturnSpellings \cup TypeSpellings}
    \cup
    {Prototype("-", t, b, <<>>, " ") : t \in TypeSpellings, b \in {"m", "name"}}
    \cup
    {Prototype("-", t, "name", <<>>, " ") : t \in PointerSpellings}
    \cup
    {Prototype("-", "void", "", <<Parameter("m", t, "x")>>, " ") :
        t \in TypeSpellings}
    \cup
    {Prototype("-", t, "", <<Parameter("m", "id", "x")>>, " ") :
        t \in TypeSpellings}

ParsePrototypes ==
    ScenarioPrototypes
    \cup
    {Prototype(p, r, b, <<>>, " ") :
        p \in Prefixes, r \in ReturnSpellings, b \in BareSelectors}
    \cup
    {Prototype(p, r, "", <<Parameter(l, t, "object")>>, " ") :
        p \in Prefixes, r \in ReturnSpellings, l \in FirstLabels,
        t \in ParamSpellings}
    \cup
    UNION {{Prototype("-", r, "",
                [i \in 1..n |-> Parameter(Labels[i], ts[i], Names[i])], " ") :
               r \in ManyParamReturns, ts \in [1..n -> ParamSpellings]} :
           n \in 2..MaxParams}

Block(decl, protos) == [decl |-> decl, protos |-> protos]

Unit(readable, blocks) == [readable |-> readable, blocks |-> blocks]

\* one unit A.h holding one prototype
ParseDirectories ==
    {[f \in {"A.h"} |-> Unit(TRUE, <<Block("@interface Foo : Bar", <<p>>)>>)] :
        p \in ParsePrototypes}

Foo(prefix, ret, type, name) ==
    Prototype(prefix, ret, "", <<Parameter("foo", type, name)>>, " ")

FooBar(ret, sep) ==
    Prototype("-", ret, "",
        <<Parameter("foo", "int", "a"), Parameter("bar", "id", "b")>>, sep)

UnitPrototypes ==
    {Foo("-", "void", "int", "a"), Foo("-", "void", "int", "b"),
     Foo("-", "int", "int", "a"), Foo("+", "void", "int", "a"),
     Foo("-", "void", "id", "a"),
     FooBar("void", " "), FooBar("BOOL", "\n        "),
     Prototype("-", "id", "init", <<>>, " ")}

UnitDecls ==
    {"", "@interface Foo : Bar",
     "#import <Foundation/Foundation.h>\n\n/* generated */\n@protocol Baz // p"}

\* one unit A.h holding one block of prototypes
UnitDirectories ==
    {[f \in {"A.h"} |-> Unit(TRUE, <<Block(d, ps)>>)] :
        d \in UnitDecls, ps \in SeqsUpTo(UnitPrototypes, MaxProtos)}

FileNames == {"B.h", "A.h", "A.hpp"}

BatchPrototypes ==
    {Prototype("-", "id", "init", <<>>, " "), Foo("-", "void", "int", "arg1")}

BatchUnits ==
    {Unit(TRUE, <<Block(d, ps)>>) :
        d \in {"", "@interface Foo : Bar"},
        ps \in SeqsUpTo(BatchPrototypes, MaxBatchProtos)}
    \cup {Unit(FALSE, <<>>)}

\* every set of the file names, each name holding any unit
BatchDirectories == UNION {[names -> BatchUnits] : names \in SUBSET FileNames}

Init == InitWith(BatchDirectories)

Next ==
    \/ SkipFile
    \/ OpenUnit
    \/ ReadFailure
    \/ NextMethod
    \/ ReturnUnit
    \/ WriteDocument

Spec == Init /\ [][Next]_vars

InitUnit == InitWith(UnitDirectories)

NextUnit ==
    \/ OpenUnit
    \/ NextMethod
    \/ ReturnUnit
    \/ WriteDocument

SpecUnit == InitUnit /\ [][NextUnit]_vars

InitParse == InitWith(ParseDirectories)

NextParse ==
    \/ OpenUnit
    \/ NextMethod
    \/ ReturnUnit
    \/ WriteDocument

SpecParse == InitParse /\ [][NextParse]_vars

MaxBlocks == 2

\* the declaration lines of the blocks, each with the selector of the method
\* a block of that declaration may hold
OwnerDecls ==
    {<<"@interface Foo : Bar", "foo">>, <<"@interface Zed : Foo", "zed">>,
     <<"@protocol Baz", "baz">>, <<"@interface Qux (Extras)", "qux">>,
     <<"@interface Plain", "plain">>, <<"", "bare">>}

OwnerBlocks ==
    {Block(d[1], <<>>) : d \in OwnerDecls}
    \cup {Block(d[1], <<Prototype("-", "void", d[2], <<>>, " ")>>) : d \in OwnerDecls}

\* one unit A.h holding at most MaxBlocks blocks, in any order
OwnerDirectories ==
    {[f \in {"A.h"} |-> Unit(TRUE, bs)] : bs \in SeqsUpTo(OwnerBlocks, MaxBlocks)}

InitOwner == InitWith(OwnerDirectories)

NextOwner ==
    \/ OpenUnit
    \/ NextMethod
    \/ ReturnUnit
    \/ WriteDocument

SpecOwner == InitOwner /\ [][NextOwner]_vars

MaxFiles == 4

\* the names a directory may hold, the first MaxFiles of them
OrderNames == <<"a.h", "B.h", "A.txt", "A.h", "a.hpp">>

\* the units of a file: one that cannot be read, one with an owner and no
\* method, and two with methods, the second with a repeated prototype and
\* with one that repeats a selector under another parameter name
OrderUnits ==
    {Unit(FALSE, <<>>),
     Unit(TRUE, <<Block("@interface Foo : Bar", <<>>)>>),
     Unit(TRUE, <<Block("@interface Foo : Bar",
                        <<Prototype("-", "id", "init", <<>>, " ")>>)>>),
     Unit(TRUE, <<Block("@protocol Baz",
                        <<Foo("-", "void", "int", "a"),
                          Prototype("-", "id", "init", <<>>, " "),
                          Foo("-", "int", "int", "a"),
                          Foo("-", "void", "int", "b")>>)>>)}

\* every set of the names, each name holding any of the units
OrderDirectories ==
    UNION {[names -> OrderUnits] :
              names \in SUBSET {OrderNames[i] : i \in 1..MaxFiles}}

InitOrder == InitWith(OrderDirectories)

NextOrder ==
    \/ SkipFile
    \/ OpenUnit
    \/ ReadFailure
    \/ NextMethod
    \/ ReturnUnit
    \/ WriteDocument

SpecOrder == InitOrder /\ [][NextOrder]_vars

\* the batch of Spec, run MaxRuns times over the same directory
NextRerun ==
    \/ SkipFile
    \/ OpenUnit
    \/ ReadFailure
    \/ NextMethod
    \/ ReturnUnit
    \/ WriteDocument
    \/ RunAgain

SpecRerun == Init /\ [][NextRerun]_vars

-----------------------------------------------------------------------------
(* The properties of the conversion.  A single prototype is followed from  *)
(* the unit text to its method record under SpecParse, the prototypes of   *)
(* one unit under SpecUnit, and a directory of units under Spec.           *)

\* the prototypes declared in the unit being processed, in declaration order
declared ==
    IF filename \in DOMAIN headers_dir /\ headers_dir[filename].blocks # <<>>
    THEN headers_dir[filename].blocks[1].protos
    ELSE <<>>

\* the unit declares one prototype and parse_method_declaration was given it
parsed_single == Len(declared) = 1 /\ line # None

\* the unit declares one prototype and a method record was built from it
built_single == parsed_single /\ method_info # <<>>

Digits == {"0", "1", "2", "3", "4", "5", "6", "7", "8", "9"}

\* the digits of the first number of an encoding, "" if it has none
first_number(encoding) ==
    LET from == FirstChar(encoding, Digits, TRUE, 1, Len(encoding))
        stop == FirstChar(encoding, Digits, FALSE, from, Len(encoding))
    IN  IF from = 0 THEN ""
        ELSE SubSeq(encoding, from, IF stop = 0 THEN Len(encoding) ELSE stop - 1)

\* the parameter tokens of an encoding, read from index i: the <<code, offset>>
\* pairs that follow @0:8, both as text
RECURSIVE tokens_from(_, _)
tokens_from(encoding, i) ==
    IF i > Len(encoding) THEN <<>>
    ELSE LET num  == FirstChar(encoding, Digits, TRUE, i, Len(encoding))
             stop == IF num = 0 THEN 0
                     ELSE FirstChar(encoding, Digits, FALSE, num, Len(encoding))
             end  == IF stop = 0 THEN Len(encoding) + 1 ELSE stop
         IN  IF num = 0 THEN <<<<SubSeq(encoding, i, Len(encoding)), "">>>>
             ELSE <<<<SubSeq(encoding, i, num - 1), SubSeq(encoding, num, end - 1)>>>>
                  \o tokens_from(encoding, end)

param_tokens(encoding) ==
    IF ~Contains(encoding, "@0:8") THEN <<>>
    ELSE tokens_from(encoding, Find(encoding, "@0:8", 1) + 4)

\* the record parse_method_declaration builds for a prototype on its own
record_alone(p) ==
    parse_method_declaration(
        declaration_line(p.prefix, p.ret, clean_selector_text(selector_text(p))),
        current_interface)[1]

\* C1: every method record whose selector is a key of the override table
\* carries the table's encoding verbatim, with or without a parameter and
\* whatever the declared return and parameter types are.
C1_OverrideVerbatim ==
    \A i \in 1..Len(methods) :
        methods[i].selector \in DOMAIN special_method_encodings
        => methods[i].typeEncoding = special_method_encodings[methods[i].selector]

\* C1: - (BOOL)conformsToProtocol:(Protocol *)object; has been parsed, and
\* its encoding is not the table's B24@0:8^#16
C1_ConformsToProtocolParsed ==
    /\ built_single
    /\ declared[1] = Prototype("-", "BOOL", "",
           <<Parameter("conformsToProtocol", "Protocol *", "object")>>, " ")
    /\ method_info[1].selector = "conformsToProtocol:"
    /\ method_info[1].typeEncoding = "B24@0:8@16"
    /\ special_method_encodings["conformsToProtocol:"] = "B24@0:8^#16"

\* C2: a zero-argument prototype whose selector is dealloc or release gives a
\* method record with encoding v16@0:8, whatever its return type and
\* direction marker, and that record is the one written to the document.
C2_DeallocRelease ==
    (/\ parsed_single
     /\ declared[1].params = <<>>
     /\ declared[1].bare \in {"dealloc", "release"})
    => /\ Len(methods) = 1
       /\ methods[1].prefix = declared[1].prefix
       /\ methods[1].selector = declared[1].bare
       /\ methods[1].typeEncoding = "v16@0:8"
       /\ pc = "done" => /\ Len(document) = 1
                         /\ Len(document[1].methods) = 1
                         /\ document[1].methods[1].typeEncoding = "v16@0:8"

\* C2: + (CGRect)dealloc; has been parsed and written with encoding v16@0:8
C2_StructDeallocWritten ==
    /\ built_single /\ pc = "done"
    /\ declared[1] = Prototype("+", "CGRect", "dealloc", <<>>, " ")
    /\ document[1].methods[1].selector = "dealloc"
    /\ document[1].methods[1].typeEncoding = "v16@0:8"

\* C3: for a prototype with n parameters whose selector is not in the
\* override table, the number after the return-type code of the encoding is
\* 16 + 8n, whatever the return and parameter type spellings are.
C3_FrameSize ==
    (built_single /\ method_info[1].selector \notin DOMAIN special_method_encodings)
    => first_number(method_info[1].typeEncoding)
           = ToString(16 + (8 * Len(declared[1].params)))

\* C3: - (CDUnknownBlockType)doSomething; has been parsed, and the number of
\* its encoding is 32 for no parameter
C3_BlockReturnParsed ==
    /\ built_single
    /\ declared[1] = Prototype("-", "CDUnknownBlockType", "doSomething", <<>>, " ")
    /\ method_info[1].selector = "doSomething"
    /\ first_number(method_info[1].typeEncoding) = "32"

\* the loop over the matches of the unit has ended
unit_processed == pc = "unit" /\ matches = <<>>

\* two prototypes with the same direction marker and the same raw selector
\* text once whitespace is collapsed
same_raw_selector(p, q) ==
    /\ p.prefix = q.prefix
    /\ clean_selector_text(selector_text(p)) = clean_selector_text(selector_text(q))

\* the indices of the prototypes that no earlier prototype repeats
first_occurrences(protos) ==
    SelectSeq([j \in 1..Len(protos) |-> j],
              LAMBDA j : \A i \in 1..(j - 1) : ~same_raw_selector(protos[i], protos[j]))

\* C4: no two method records built from one unit have the same prefix and
\* the same selector.
C4_UniqueSelectors ==
    \A i, j \in 1..Len(methods) :
        i < j => <<methods[i].prefix, methods[i].selector>>
                 # <<methods[j].prefix, methods[j].selector>>

\* C4: - (void)foo:(int)a; and - (void)foo:(int)b; of one unit have both
\* given a record with selector foo:
C4_RenamedParameterKept ==
    /\ unit_processed
    /\ declared = <<Foo("-", "void", "int", "a"), Foo("-", "void", "int", "b")>>
    /\ Len(methods) = 2
    /\ methods[1].prefix = "-" /\ methods[1].selector = "foo:"
    /\ methods[2].prefix = "-" /\ methods[2].selector = "foo:"

\* C5: once a unit is processed its method records are those of the first
\* occurrences of each (direction marker, raw selector text), in declaration
\* order and as each would be built on its own: a later prototype with the
\* same marker and text gives no record and changes none, whatever its
\* return type.
C5_FirstWins ==
    unit_processed
    => methods = [k \in 1..Len(first_occurrences(declared)) |->
                     record_alone(declared[first_occurrences(declared)[k]])]

\* C5: of - (void)foo:(int)a bar:(id)b; and - (BOOL)foo:(int)a bar:(id)b;
\* written over two lines, only the first has given a record
C5_LaterReturnTypeDiscarded ==
    /\ unit_processed
    /\ declared = <<FooBar("void", " "), FooBar("BOOL", "\n        ")>>
    /\ declared[1].ret # declared[2].ret
    /\ proto_text(declared[1]) # proto_text(declared[2])
    /\ Len(methods) = 1
    /\ methods[1].selector = "foo:bar:"
    /\ methods[1].typeEncoding = "v32@0:8i16@24"

\* a prototype with its two parameters swapped
swapped(p) == [p EXCEPT !.params = <<p.params[2], p.params[1]>>]

\* the type codes of the parameter tokens of an encoding
token_codes(encoding) ==
    [i \in 1..Len(param_tokens(encoding)) |-> param_tokens(encoding)[i][1]]

\* the offsets of the parameter tokens of an encoding
token_offsets(encoding) ==
    [i \in 1..Len(param_tokens(encoding)) |-> param_tokens(encoding)[i][2]]

\* C6: in the encoding of a method with parameters the i-th parameter token,
\* i from 0, has offset 16 + 8i, and the prototype with two parameters
\* swapped has the two type codes swapped at the same offsets.
C6_ParameterOffsets ==
    (built_single /\ declared[1].params # <<>>)
    => /\ \A i \in 1..Len(param_tokens(method_info[1].typeEncoding)) :
              token_offsets(method_info[1].typeEncoding)[i]
                  = ToString(16 + (8 * (i - 1)))
       /\ Len(declared[1].params) = 2
          => /\ Len(token_codes(method_info[1].typeEncoding)) = 2
             /\ token_codes(record_alone(swapped(declared[1])).typeEncoding)
                    = <<token_codes(method_info[1].typeEncoding)[2],
                        token_codes(method_info[1].typeEncoding)[1]>>
             /\ token_offsets(record_alone(swapped(declared[1])).typeEncoding)
                    = token_offsets(method_info[1].typeEncoding)

\* C6: - (void)sum:(void (^)(BOOL))a with:(int)b; has been parsed into one
\* parameter token, and with the parameters swapped it has two
C6_BlockParameterParsed ==
    /\ built_single
    /\ declared[1] = Prototype("-", "void", "",
           <<Parameter("sum", "void (^)(BOOL)", "a"),
             Parameter("with", "int", "b")>>, " ")
    /\ method_info[1].typeEncoding = "v24@0:8@16"
    /\ record_alone(swapped(declared[1])).typeEncoding = "v32@0:8i16@24"

\* C7: - (NSInteger)sum:(int)a with:(int)b; gives a method record with
\* selector sum:with: and encoding i32@0:8i16i24.
C7_SumWith ==
    (/\ parsed_single
     /\ declared[1] = Prototype("-", "NSInteger", "",
            <<Parameter("sum", "int", "a"), Parameter("with", "int", "b")>>, " "))
    => /\ Len(methods) = 1
       /\ methods[1].selector = "sum:with:"
       /\ methods[1].typeEncoding = "i32@0:8i16i24"

\* C7: - (NSInteger)sum:(int)a with:(int)b; has been parsed, and its
\* return-type code is @
C7_SumWithParsed ==
    /\ built_single
    /\ proto_text(declared[1]) = "- (NSInteger)sum:(int)a with:(int)b;"
    /\ methods[1].selector = "sum:with:"
    /\ methods[1].typeEncoding = "@32@0:8i16i24"

\* C8: - (BOOL)isEqual:(id)object; gives a method record with selector
\* isEqual: and encoding B24@0:8@16, the override table's entry for isEqual:.
C8_IsEqual ==
    (/\ parsed_single
     /\ declared[1] = Prototype("-", "BOOL", "",
            <<Parameter("isEqual", "id", "object")>>, " "))
    => /\ Len(methods) = 1
       /\ methods[1].prefix = "-"
       /\ methods[1].selector = "isEqual:"
       /\ methods[1].typeEncoding = "B24@0:8@16"
       /\ methods[1].typeEncoding = special_method_encodings["isEqual:"]

\* C8: - (BOOL)isEqual:(id)object; has been parsed and its record written
C8_IsEqualWritten ==
    /\ built_single /\ pc = "done"
    /\ proto_text(declared[1]) = "- (BOOL)isEqual:(id)object;"
    /\ document[1].methods[1].selector = "isEqual:"
    /\ document[1].methods[1].typeEncoding = "B24@0:8@16"

registry_structs ==
    {"CGRect", "CGPoint", "CGSize", "NSRange", "UIEdgeInsets", "CGAffineTransform"}

\* C9: a method that returns a struct of the registry has an encoding that
\* begins with the struct's member layout, then the frame size and @0:8,
\* with or without parameters; - (CGRect)frame; has
\* {CGRect={CGPoint=dd}{CGSize=dd}}16@0:8.  Selectors of the override table
\* are left to C1 and C2.
C9_StructReturn ==
    (/\ built_single
     /\ declared[1].ret \in registry_structs
     /\ method_info[1].selector \notin DOMAIN special_method_encodings)
    => /\ StartsWith(method_info[1].typeEncoding,
                     struct_types[declared[1].ret]
                     \o first_number(method_info[1].typeEncoding) \o "@0:8")
       /\ proto_text(declared[1]) = "- (CGRect)frame;"
          => method_info[1].typeEncoding = "{CGRect={CGPoint=dd}{CGSize=dd}}16@0:8"

\* C9: - (CGRect)run:(id)object; has been parsed, and its encoding begins
\* with @
C9_StructReturnWithParameter ==
    /\ built_single
    /\ proto_text(declared[1]) = "- (CGRect)run:(id)object;"
    /\ method_info[1].selector = "run:"
    /\ method_info[1].typeEncoding = "@24@0:8@16"

\* the .h units of the directory that were read, in the order of the batch
units_read ==
    SelectSeq(sorted(DOMAIN headers_dir),
              LAMBDA f : /\ EndsWith(f, ".h")
                         /\ \A i \in 1..Len(todo) : todo[i] # f
                         /\ ~(f = filename /\ pc = "unit"))

\* a unit a method record is built from: it can be read and declares a
\* prototype
has_method(u) ==
    u.readable /\ \E i \in 1..Len(u.blocks) : u.blocks[i].protos # <<>>

\* C10: the units that have contributed a TypeRecord are the units read that
\* a method record was built from, one TypeRecord each and in the order
\* read, and no TypeRecord has an empty methods sequence.
C10_RecordIffMethods ==
    /\ Len(classes_data)
           = Len(SelectSeq(units_read, LAMBDA f : has_method(headers_dir[f])))
    /\ \A i \in 1..Len(classes_data) : classes_data[i].methods # <<>>
    /\ pc = "done"
       => /\ Len(document) = Len(classes_data)
          /\ \A i \in 1..Len(document) : document[i].methods # <<>>

\* C10: a batch has ended in which A.h declares @interface Foo : Bar and no
\* method and B.h a method and no owner: the one TypeRecord is B.h's
C10_OwnerOnlyUnitDropped ==
    /\ pc = "done"
    /\ DOMAIN headers_dir = {"A.h", "B.h"}
    /\ headers_dir["A.h"] = Unit(TRUE, <<Block("@interface Foo : Bar", <<>>)>>)
    /\ headers_dir["B.h"] =
           Unit(TRUE, <<Block("", <<Prototype("-", "id", "init", <<>>, " ")>>)>>)
    /\ Len(document) = 1
    /\ document[1].name = "NSObject"
    /\ document[1].methods[1].selector = "init"

\* the selector a prototype declares: its labels, each followed by a colon
declared_selector(p) ==
    IF p.params = <<>> THEN p.bare
    ELSE Join([i \in 1..Len(p.params) |-> p.params[i].label], ":") \o ":"

\* C11: a parameter type that contains parentheses is captured whole: the
\* record has the declared selector, one parameter token per declared
\* parameter, and shows each such type in full in its display name
\* (- (void)run:(void (^)(BOOL))handler with:(int)x; gives run:with:).
C11_WholeParameterTypes ==
    (/\ built_single
     /\ \E i \in 1..Len(declared[1].params) :
            Contains(declared[1].params[i].type, "("))
    => /\ method_info[1].selector = declared_selector(declared[1])
       /\ Len(param_tokens(method_info[1].typeEncoding)) = Len(declared[1].params)
       /\ \A i \in 1..Len(declared[1].params) :
              Contains(declared[1].params[i].type, "(")
              => Contains(method_info[1].displayName,
                          declared[1].params[i].label \o ":("
                          \o declared[1].params[i].type \o ")")

\* C11: - (void)run:(void (^)(BOOL))handler with:(int)x; has been parsed
\* into one parameter whose type is cut at the first inner )
C11_BlockTypeTruncated ==
    /\ built_single
    /\ proto_text(declared[1]) = "- (void)run:(void (^)(BOOL))handler with:(int)x;"
    /\ method_info[1].selector = "run:(void (^)(BOOL))handler with:"
    /\ method_info[1].typeEncoding = "v24@0:8@16"
    /\ method_info[1].displayName
           = "-(void) run:(void (^)(BOOL))handler with:(void (^)"

\* C12: a method record's selector has one colon per parameter token of its
\* encoding; the selector of a prototype with parameters ends with a colon,
\* and the selector of a prototype without parameters is its bare identifier
\* and has no colon (- (void)doSomething; gives doSomething and v16@0:8).
C12_ColonPerParameter ==
    built_single
    => /\ Count(method_info[1].selector, ":")
              = Len(param_tokens(method_info[1].typeEncoding))
       /\ declared[1].params # <<>> => EndsWith(method_info[1].selector, ":")
       /\ declared[1].params = <<>>
          => /\ method_info[1].selector = declared[1].bare
             /\ ~Contains(method_info[1].selector, ":")
       /\ proto_text(declared[1]) = "- (void)doSomething;"
          => /\ method_info[1].selector = "doSomething"
             /\ method_info[1].typeEncoding = "v16@0:8"

\* C12: - (void)run:(void (^)(BOOL))object; has been parsed into a selector
\* with two colons and an encoding with one parameter token
C12_TwoColonsOneToken ==
    /\ built_single
    /\ proto_text(declared[1]) = "- (void)run:(void (^)(BOOL))object;"
    /\ method_info[1].selector = "run:(void (^)(BOOL))object:"
    /\ Count(method_info[1].selector, ":") = 2
    /\ method_info[1].typeEncoding = "v24@0:8@16"

\* the declaration lines of the unit being processed
declarations ==
    IF filename \in DOMAIN headers_dir
    THEN {headers_dir[filename].blocks[i].decl :
             i \in 1..Len(headers_dir[filename].blocks)}
    ELSE {}

\* the class declarations with a superclass: <<name, superclass>>
class_declarations ==
    ("@interface Foo : Bar" :> <<"Foo", "Bar">>)
    @@ ("@interface Zed : Foo" :> <<"Zed", "Foo">>)

\* the protocol declarations: <<name, superclass>>
protocol_declarations == ("@protocol Baz" :> <<"Baz", "NSObject">>)

\* the category declarations: <<name, superclass>>
category_declarations == ("@interface Qux (Extras)" :> <<"Qux", None>>)

\* the owners the precedence allows for a set of declaration lines
owners_allowed(decls) ==
    IF decls \cap DOMAIN class_declarations # {}
    THEN {class_declarations[d] : d \in decls \cap DOMAIN class_declarations}
    ELSE IF decls \cap DOMAIN protocol_declarations # {}
    THEN {protocol_declarations[d] : d \in decls \cap DOMAIN protocol_declarations}
    ELSE IF decls \cap DOMAIN category_declarations # {}
    THEN {category_declarations[d] : d \in decls \cap DOMAIN category_declarations}
    ELSE {<<"NSObject", None>>}

\* C13: the owner of a unit is a class declared with a superclass if the
\* unit text has one anywhere, else a protocol with superclass NSObject, else
\* a category's class with no superclass, else NSObject with no superclass,
\* in whatever order the declarations stand; the TypeRecord written carries
\* that name and superclass.
C13_OwnerPrecedence ==
    /\ content # None
       => <<current_interface, superclass>> \in owners_allowed(declarations)
    /\ (pc = "done" /\ document # <<>>)
       => <<document[1].name, document[1].superClassName>>
              \in owners_allowed(declarations)

\* C13: a unit whose protocol block stands before its class block has been
\* written under the class and its superclass
C13_ClassAfterProtocol ==
    /\ pc = "done"
    /\ Len(headers_dir["A.h"].blocks) = 2
    /\ headers_dir["A.h"].blocks[1].decl = "@protocol Baz"
    /\ headers_dir["A.h"].blocks[2].decl = "@interface Foo : Bar"
    /\ Len(document) = 1
    /\ document[1].name = "Foo"
    /\ document[1].superClassName = "Bar"

\* the blocks of the unit being processed
blocks_declared ==
    IF filename \in DOMAIN headers_dir THEN headers_dir[filename].blocks ELSE <<>>

\* the declarations that open a recognized block: <<name, superclass>>
recognized_declarations ==
    class_declarations @@ protocol_declarations @@ category_declarations

\* C14: a unit of several recognized declaration blocks, each with methods,
\* gives one TypeRecord per block, in the order of the blocks, each under
\* its block's name and holding the methods declared in that block.
C14_RecordPerBlock ==
    (/\ pc = "done"
     /\ Len(blocks_declared) >= 2
     /\ \A i \in 1..Len(blocks_declared) :
            /\ blocks_declared[i].decl \in DOMAIN recognized_declarations
            /\ blocks_declared[i].protos # <<>>
     /\ \A i, j \in 1..Len(blocks_declared) :
            i # j => blocks_declared[i].decl # blocks_declared[j].decl)
    => /\ Len(document) = Len(blocks_declared)
       /\ \A i \in 1..Len(blocks_declared) :
              /\ document[i].name
                     = recognized_declarations[blocks_declared[i].decl][1]
              /\ [j \in 1..Len(document[i].methods) |->
                     document[i].methods[j].selector]
                     = [j \in 1..Len(blocks_declared[i].protos) |->
                           declared_selector(blocks_declared[i].protos[j])]

\* C14: a unit with the blocks @interface Foo : Bar and @interface Zed : Foo,
\* one method each, has been written as the single TypeRecord Foo holding
\* both methods
C14_TwoClassesOneRecord ==
    /\ pc = "done"
    /\ Len(blocks_declared) = 2
    /\ blocks_declared[1].decl = "@interface Foo : Bar"
    /\ blocks_declared[2].decl = "@interface Zed : Foo"
    /\ Len(document) = 1
    /\ document[1].name = "Foo"
    /\ Len(document[1].methods) = 2
    /\ document[1].methods[1].selector = "foo"
    /\ document[1].methods[2].selector = "zed"
    /\ document[1].methods[2].className = "Foo"

\* the method records process_header_file builds from a unit text on its own
unit_alone(text) ==
    LET owner  == find_owner(clean_content(text))[1]
        found  == method_matches(clean_content(text))
        keys   == [j \in 1..Len(found) |->
                      method_key(found[j][1], clean_selector_text(found[j][3]))]
        firsts == SelectSeq([j \in 1..Len(found) |-> j],
                            LAMBDA j : \A i \in 1..(j - 1) : keys[i] # keys[j])
    IN  [k \in 1..Len(firsts) |->
            parse_method_declaration(
                declaration_line(found[firsts[k]][1], found[firsts[k]][2],
                                 clean_selector_text(found[firsts[k]][3])),
                owner)[1]]

\* the TypeRecord written for a unit text on its own
record_of_unit(text) ==
    class_dict([name |-> find_owner(clean_content(text))[1],
                superClassName |-> find_owner(clean_content(text))[2],
                methods |-> unit_alone(text)])

\* the document of a batch over a directory in which every unit can be read
document_of(directory) ==
    LET names == SelectSeq(sorted(DOMAIN directory),
                     LAMBDA f : /\ EndsWith(f, ".h")
                                /\ unit_alone(unit_text(directory[f])) # <<>>)
    IN  [k \in 1..Len(names) |-> record_of_unit(unit_text(directory[names[k]]))]

\* the directory without the units that cannot be read
without_failing ==
    [f \in {g \in DOMAIN headers_dir : headers_dir[g].readable} |-> headers_dir[f]]

\* the next name of the batch is a .h unit that cannot be read
failing_unit_next ==
    /\ pc = "files" /\ todo # <<>>
    /\ EndsWith(Head(todo), ".h")
    /\ ~headers_dir[Head(todo)].readable

\* C15: a unit that cannot be read gives no TypeRecord and does not stop the
\* batch: when it is the next unit a step of the batch is possible, that step
\* leaves the kept classes as they are and goes on to the name after it, and
\* the document written at the end is the one of the batch over the directory
\* without the failing units, the same TypeRecords in the same order.
C15_FailureIsolated ==
    /\ [](failing_unit_next => ENABLED ReadFailure)
    /\ [][failing_unit_next =>
             /\ pc' = "files"
             /\ todo' = Tail(todo)
             /\ classes_data' = classes_data]_vars
    /\ [](pc = "done" => document = document_of(without_failing))

\* C15: a batch has ended in which A.h and a.h have methods and B.h, read
\* between them, cannot be read: the document holds the two TypeRecords
C15_FailingUnitBetween ==
    /\ pc = "done"
    /\ {"A.h", "B.h", "a.h"} \subseteq DOMAIN headers_dir
    /\ ~headers_dir["B.h"].readable
    /\ headers_dir["A.h"].readable /\ headers_dir["A.h"].blocks[1].decl = "@protocol Baz"
    /\ headers_dir["a.h"].readable
    /\ headers_dir["a.h"].blocks[1].protos # <<>>
    /\ headers_dir["a.h"].blocks[1].decl = "@interface Foo : Bar"
    /\ Len(document) = 2
    /\ document[1].name = "Baz"
    /\ document[2].name = "Foo"

record_names ==
    {n \in DOMAIN headers_dir : EndsWith(n, ".h") /\ has_method(headers_dir[n])}

\* the place of a name among record_names in lexicographic order
rank(n) == Cardinality({m \in record_names : str_less(m, n)}) + 1

\* the direction marker, selector and encoding of the record of a prototype
shown(p) ==
    LET r == parse_method_declaration(
                 declaration_line(p.prefix, p.ret,
                                  clean_selector_text(selector_text(p))), None)[1]
    IN  <<r.prefix, r.selector, r.typeEncoding>>

\* the indices of the prototypes whose (direction marker, selector) no
\* earlier prototype has
first_of_group(protos) ==
    {j \in 1..Len(protos) :
        \A i \in 1..(j - 1) :
            <<protos[i].prefix, declared_selector(protos[i])>>
            # <<protos[j].prefix, declared_selector(protos[j])>>}

\* the records are those of some of the prototypes, the first of each
\* duplicate group among them, in the order of the prototypes
in_declaration_order(records, protos) ==
    \E J \in SUBSET (1..Len(protos)) :
        /\ first_of_group(protos) \subseteq J
        /\ Cardinality(J) = Len(records)
        /\ \A j \in J :
               LET k == Cardinality({i \in J : i < j}) + 1
               IN  <<records[k].prefix, records[k].selector,
                     records[k].typeEncoding>> = shown(protos[j])

\* C17: the document holds one TypeRecord for each readable unit with methods
\* whose name ends in .h, in lexicographic order of the unit names, and the
\* method records of each TypeRecord are in the order of their prototypes in
\* the unit text, the first prototype of every duplicate group giving the
\* record at its own position.
C17_OutputOrder ==
    pc = "done"
    => /\ Len(document) = Cardinality(record_names)
       /\ \A n \in record_names :
              /\ document[rank(n)].name
                     = find_owner(clean_content(unit_text(headers_dir[n])))[1]
              /\ in_declaration_order(document[rank(n)].methods,
                                      headers_dir[n].blocks[1].protos)

\* C17: a batch has ended over a.h, which declares protocol Baz with a
\* repeated prototype, B.h, which declares class Foo, and A.txt: the document
\* holds Foo, then Baz with foo:, init and foo: in that order
C17_UpperCaseNameFirst ==
    /\ pc = "done"
    /\ DOMAIN headers_dir = {"a.h", "B.h", "A.txt"}
    /\ has_method(headers_dir["A.txt"])
    /\ headers_dir["B.h"].readable
    /\ headers_dir["B.h"].blocks[1].protos = <<Prototype("-", "id", "init", <<>>, " ")>>
    /\ headers_dir["a.h"].readable
    /\ headers_dir["a.h"].blocks[1].decl = "@protocol Baz"
    /\ Len(document) = 2
    /\ document[1].name = "Foo"
    /\ document[2].name = "Baz"
    /\ [k \in 1..Len(document[2].methods) |-> document[2].methods[k].selector]
           = <<"foo:", "init", "foo:">>
    /\ document[2].methods[1].typeEncoding = "v24@0:8i16"

head_code(encoding) ==
    SubSeq(encoding, 1, FirstChar(encoding, Digits, TRUE, 1, Len(encoding)) - 1)

\* the prototype - (void)m:(T)x; of a type spelling T has been parsed
spelling_as_parameter ==
    /\ built_single
    /\ Len(declared[1].params) = 1
    /\ declared[1].params[1].type \in TypeSpellings
    /\ declared[1] = Prototype("-", "void", "",
           <<Parameter("m", declared[1].params[1].type, "x")>>, " ")

\* C19: the type code of a spelling T in parameter position, the code before
\* the offset in the encoding of - (void)m:(T)x;, is the code at the head of
\* the encoding of - (T)m; and of - (T)m:(id)x;, for every spelling T of
\* TypeSpellings.
C19_SameCodeBothPositions ==
    spelling_as_parameter
    => /\ Len(token_codes(method_info[1].typeEncoding)) = 1
       /\ token_codes(method_info[1].typeEncoding)[1]
              = head_code(record_alone(Prototype("-",
                    declared[1].params[1].type, "m", <<>>, " ")).typeEncoding)
       /\ token_codes(method_info[1].typeEncoding)[1]
              = head_code(record_alone(Prototype("-",
                    declared[1].params[1].type, "",
                    <<Parameter("m", "id", "x")>>, " ")).typeEncoding)

\* C19: - (void)m:(NSInteger)x; has been parsed with the parameter code i,
\* while - (NSInteger)m; has the return code @
C19_NSIntegerBothPositions ==
    /\ spelling_as_parameter
    /\ proto_text(declared[1]) = "- (void)m:(NSInteger)x;"
    /\ method_info[1].typeEncoding = "v24@0:8i16"
    /\ record_alone(Prototype("-", "NSInteger", "m", <<>>, " ")).typeEncoding
           = "@16@0:8"

\* the type a pointer spelling points to, without const
pointed_to(spelling) == Strip(Replace(RStrip(spelling, {"*", " "}), "const", ""))

\* C20: - (char *)name; has the encoding *16@0:8 and - (const char *)name;
\* the encoding r*16@0:8, and the codes ^ and r^ of the generic pointer rule
\* are given only to pointers whose pointed-to type is not char and does not
\* begin with NS or UI.
C20_CharPointers ==
    (/\ built_single
     /\ declared[1].params = <<>>
     /\ declared[1].bare = "name")
    => /\ declared[1].ret = "char *" => method_info[1].typeEncoding = "*16@0:8"
       /\ declared[1].ret = "const char *"
          => method_info[1].typeEncoding = "r*16@0:8"
       /\ head_code(method_info[1].typeEncoding) \in {"^", "r^"}
          => /\ pointed_to(declared[1].ret) # "char"
             /\ ~StartsWith(pointed_to(declared[1].ret), "NS")
             /\ ~StartsWith(pointed_to(declared[1].ret), "UI")

\* C20: - (char *)name; has been parsed and has the encoding ^16@0:8
C20_CharPointerGeneric ==
    /\ built_single
    /\ proto_text(declared[1]) = "- (char *)name;"
    /\ method_info[1].selector = "name"
    /\ method_info[1].typeEncoding = "^16@0:8"
    /\ calculate_type_encoding("char *", "name") = "^16@0:8"

\* the record the second script builds from the line the first script parsed
second_info == second_parse_method_declaration(line, current_interface)

\* C21: on every line process_header_file hands to parse_method_declaration
\* the two scripts agree: both give no record, or both give a record with the
\* same direction marker, the same selector and the same encoding.
C21_ScriptsEquivalent ==
    parsed_single
    => /\ (method_info = <<>>) <=> (second_info = <<>>)
       /\ (method_info # <<>> /\ second_info # <<>>)
          => /\ method_info[1].prefix = second_info[1].prefix
             /\ method_info[1].selector = second_info[1].selector
             /\ method_info[1].typeEncoding = second_info[1].typeEncoding

\* C21: - (void)foo:(int)a; has been parsed by the first script into foo: with
\* v24@0:8i16, and the second script gives foo:foo: with v32@0:8
C21_FooParsedTwice ==
    /\ built_single
    /\ proto_text(declared[1]) = "- (void)foo:(int)a;"
    /\ line = "-(void) foo:(int)a"
    /\ method_info[1].selector = "foo:"
    /\ method_info[1].typeEncoding = "v24@0:8i16"
    /\ second_info # <<>>
    /\ second_info[1].selector = "foo:foo:"
    /\ second_info[1].typeEncoding = "v32@0:8"

====
